---- MODULE Spec2Model ----
(***************************************************************************)
(* SourceAdapter (android/src/main/java/com/theoplayer/source):            *)
(* the translation of an untyped React Native configuration value into a   *)
(* THEOplayer SourceDescription.  Values are modelled as tagged nodes      *)
(* [t |-> <class>, v |-> <payload>]; every function of the adapter is an   *)
(* operator over such nodes, and each specification applies one of them    *)
(* to inputs drawn from a bounded set.  The helpers of TextTrack.ts over a  *)
(* track list and over the cues of a track are operators too; their two    *)
(* specifications apply them in any order to one list (one track).         *)
(***************************************************************************)
EXTENDS Integers, Sequences, FiniteSets, TLC

VARIABLES
    call,     \* the pending invocation: [op |-> <function>, arg |-> <node>]
    flags,    \* BuildConfig: [dai |-> EXTENSION_GOOGLE_DAI, ima |-> EXTENSION_GOOGLE_IMA]
    pc,       \* "start" before the invocation ran, "done" after
    result,   \* what the invocation produced (NoResult before it ran)
    textTrackList,  \* the track list the TextTrack helpers are applied to
    textTrack,      \* the track whose cues the cue helpers mutate in place
    lastCall        \* per uid: the last helper called for it ("none", "add", "remove")

vars == <<call, flags, pc, result, textTrackList, textTrack, lastCall>>

(***************************************************************************)
(* Bounds of the model.                                                    *)
(***************************************************************************)
MaxEntries == 3   \* array entries (sources, ads, textTracks together) of one input
MaxNodes == 4     \* nodes of one tree handed to eliminateReadables

(***************************************************************************)
(* Node vocabulary.  Foreign (bridge) containers are ReadableMap and       *)
(* ReadableArray in their two implementations; HashMap and ArrayList are   *)
(* the java.util containers; JSONObject and JSONArray are org.json.        *)
(***************************************************************************)
Str(s) == [t |-> "String", v |-> s]
Num(n) == [t |-> "Double", v |-> n]
Bool(b) == [t |-> "Boolean", v |-> b]
Null == [t |-> "Null", v |-> 0]
NativeMap(f) == [t |-> "ReadableNativeMap", v |-> f]
NativeArray(s) == [t |-> "ReadableNativeArray", v |-> s]
JavaOnlyMap(f) == [t |-> "JavaOnlyMap", v |-> f]
JavaOnlyArray(s) == [t |-> "JavaOnlyArray", v |-> s]
HashMapOf(f) == [t |-> "HashMap", v |-> f]
ArrayListOf(s) == [t |-> "ArrayList", v |-> s]
JSONObjectOf(f) == [t |-> "JSONObject", v |-> f]
JSONArrayOf(s) == [t |-> "JSONArray", v |-> s]

EmptyMap == <<>>

IsReadableMap(n) == n.t \in {"ReadableNativeMap", "JavaOnlyMap"}
IsReadableArray(n) == n.t \in {"ReadableNativeArray", "JavaOnlyArray"}
IsMapLike(n) == n.t \in {"ReadableNativeMap", "JavaOnlyMap", "HashMap", "JSONObject"}
IsArrayLike(n) == n.t \in {"ReadableNativeArray", "JavaOnlyArray", "ArrayList", "JSONArray"}

(***************************************************************************)
(* ReadableMap.toHashMap / ReadableArray.toArrayList.  The bridge's own    *)
(* containers convert their whole subtree; the JavaOnly containers copy    *)
(* only their top level and leave nested Readable values in place, which   *)
(* is the case eliminateReadables exists for.                              *)
(***************************************************************************)
RECURSIVE DeepConvert(_)
DeepConvert(n) ==
    IF IsMapLike(n) THEN HashMapOf([k \in DOMAIN n.v |-> DeepConvert(n.v[k])])
    ELSE IF IsArrayLike(n) THEN ArrayListOf([i \in DOMAIN n.v |-> DeepConvert(n.v[i])])
    ELSE n

toHashMap(readableMap) ==
    IF readableMap.t = "ReadableNativeMap" THEN DeepConvert(readableMap)
    ELSE HashMapOf(readableMap.v)

toArrayList(readableArray) ==
    IF readableArray.t = "ReadableNativeArray" THEN DeepConvert(readableArray)
    ELSE ArrayListOf(readableArray.v)

(***************************************************************************)
(* eliminateReadables, both overloads.                                     *)
(***************************************************************************)
RECURSIVE eliminateReadablesMap(_), eliminateReadablesArray(_)
EliminateValueMapsOnly(value) ==
    IF IsReadableMap(value) THEN eliminateReadablesMap(value)
    ELSE value

EliminateValue(value) ==
    IF IsReadableMap(value) THEN eliminateReadablesMap(value)
    ELSE IF IsReadableArray(value) THEN eliminateReadablesArray(value)
    ELSE value

eliminateReadablesMap(readableMap) ==
    LET hashMap == toHashMap(readableMap)
    IN  HashMapOf([key \in DOMAIN hashMap.v |-> EliminateValue(hashMap.v[key])])

eliminateReadablesArray(readableArray) ==
    LET arrayList == toArrayList(readableArray)
    IN  ArrayListOf([i \in DOMAIN arrayList.v |-> EliminateValue(arrayList.v[i])])

(***************************************************************************)
(* gson.toJson(hashmap) followed by JSONObject(json): a HashMap becomes a  *)
(* JSONObject without its null-valued entries (Gson does not serialize     *)
(* nulls in maps), an ArrayList becomes a JSONArray that keeps its nulls.  *)
(***************************************************************************)
RECURSIVE ToJson(_)
ToJson(n) ==
    IF n.t = "HashMap"
    THEN JSONObjectOf([k \in {j \in DOMAIN n.v : n.v[j].t # "Null"} |-> ToJson(n.v[k])])
    ELSE IF n.t = "ArrayList"
    THEN JSONArrayOf([i \in DOMAIN n.v |-> ToJson(n.v[i])])
    ELSE n

(***************************************************************************)
(* org.json accessors.                                                     *)
(***************************************************************************)
DoubleText(d) ==
    CASE d = 5 -> "5.0"
      [] d = 10 -> "10.0"
      [] OTHER -> "0.0"

Stringify(value) ==
    CASE value.t = "String" -> value.v
      [] value.t = "Double" -> DoubleText(value.v)
      [] value.t = "Boolean" -> IF value.v THEN "true" ELSE "false"
      [] value.t = "Null" -> "null"
      [] value.t = "JSONObject" -> "{}"
      [] OTHER -> "[]"

has(json, name) == name \in DOMAIN json.v

optString(json, name) ==
    IF has(json, name) THEN Stringify(json.v[name]) ELSE ""

isJSONObject(json, name) == has(json, name) /\ json.v[name].t = "JSONObject"

isJSONArray(json, name) == has(json, name) /\ json.v[name].t = "JSONArray"

(***************************************************************************)
(* String.endsWith.  TLC's strings are atomic, so Chars spells out the     *)
(* characters of every string of the model's universe.                     *)
(***************************************************************************)
Chars(s) ==
    CASE s = "" -> <<>>
      [] s = "v.mpd" -> <<"v", ".", "m", "p", "d">>
      [] s = "v.m3u8" -> <<"v", ".", "m", "3", "u", "8">>
      [] s = "v.mp4" -> <<"v", ".", "m", "p", "4">>
      [] s = "v.mp3" -> <<"v", ".", "m", "p", "3">>
      [] s = "v.bin" -> <<"v", ".", "b", "i", "n">>
      [] s = "v.MPD" -> <<"v", ".", "M", "P", "D">>
      [] s = "v.mp4?t" -> <<"v", ".", "m", "p", "4", "?", "t">>
      [] s = ".mpd" -> <<".", "m", "p", "d">>
      [] s = "mpd" -> <<"m", "p", "d">>
      [] s = "v.mpd.mp3" -> <<"v", ".", "m", "p", "d", ".", "m", "p", "3">>
      [] s = ".m3u8" -> <<".", "m", "3", "u", "8">>
      [] s = ".mp4" -> <<".", "m", "p", "4">>
      [] s = ".mp3" -> <<".", "m", "p", "3">>
      [] OTHER -> <<"?">>

endsWith(s, suffix) ==
    LET cs == Chars(s)
        cx == Chars(suffix)
    IN  /\ Len(cs) >= Len(cx)
        /\ SubSeq(cs, Len(cs) - Len(cx) + 1, Len(cs)) = cx

(***************************************************************************)
(* parseSourceType.  "unset" stands for the null SourceType.               *)
(***************************************************************************)
parseSourceTypeFirstMatch(jsonTypedSource) ==
    LET type == optString(jsonTypedSource, "type")
        src == optString(jsonTypedSource, "src")
    IN  CASE "application/dash+xml" = type \/ endsWith(src, ".mpd") -> "DASH"
          [] "application/x-mpegurl" = type \/ endsWith(src, ".m3u8") -> "HLSX"
          [] "application/vnd.theo.hesp+json" = type -> "HESP"
          [] "application/vnd.apple.mpegurl" = type -> "HLS"
          [] "video/mp4" = type \/ endsWith(src, ".mp4") -> "MP4"
          [] "audio/mpeg" = type \/ endsWith(src, ".mp3") -> "MP3"
          [] OTHER -> "unset"

parseSourceType(jsonTypedSource) ==
    LET type == optString(jsonTypedSource, "type")
    IN  IF type # ""
        THEN CASE "application/dash+xml" = type -> "DASH"
               [] "application/x-mpegurl" = type -> "HLSX"
               [] "application/vnd.theo.hesp+json" = type -> "HESP"
               [] "application/vnd.apple.mpegurl" = type -> "HLS"
               [] "video/mp4" = type -> "MP4"
               [] "audio/mpeg" = type -> "MP3"
               [] OTHER -> "unset"
        ELSE LET src == optString(jsonTypedSource, "src")
             IN  CASE endsWith(src, ".mpd") -> "DASH"
                   [] endsWith(src, ".m3u8") -> "HLSX"
                   [] endsWith(src, ".mp4") -> "MP4"
                   [] endsWith(src, ".mp3") -> "MP3"
                   [] OTHER -> "unset"

(***************************************************************************)
(* Outcomes.  A THEOplayerException is [code, msg, detail]: msg is one of  *)
(* the ERROR_ constants and detail the string interpolated after it.       *)
(***************************************************************************)
ERROR_DAI_NOT_ENABLED == "Google DAI support not enabled."
ERROR_UNSUPPORTED_SSAI_INTEGRATION == "Unsupported SSAI integration"
ERROR_MISSING_SSAI_INTEGRATION == "Missing SSAI integration"
ERROR_IMA_NOT_ENABLED == "Google IMA support not enabled."
ERROR_UNSUPPORTED_CSAI_INTEGRATION == "Unsupported CSAI integration"
ERROR_MISSING_CSAI_INTEGRATION == "Missing CSAI integration"

THEOplayerException(msg, detail) == [code |-> "AD_ERROR", msg |-> msg, detail |-> detail]
NoException == [code |-> "", msg |-> "", detail |-> ""]

Unset == [set |-> FALSE, v |-> 0]
SetTo(x) == [set |-> TRUE, v |-> x]

NoValue == [src |-> ""]

\* kind: "value" (built), "null" (JSONException caught, null returned),
\* "threw" (THEOplayerException propagates), "crash" (any other exception).
Built(x) == [kind |-> "value", value |-> x, err |-> NoException, exc |-> ""]
ReturnedNull == [kind |-> "null", value |-> NoValue, err |-> NoException, exc |-> ""]
Threw(e) == [kind |-> "threw", value |-> NoValue, err |-> e, exc |-> ""]
Crashed(x) == [kind |-> "crash", value |-> NoValue, err |-> NoException, exc |-> x]

(***************************************************************************)
(* JSONObject.getDouble / getBoolean / optBoolean coerce strings.          *)
(***************************************************************************)
toDouble(value) ==
    CASE value.t = "Double" -> SetTo(value.v)
      [] value.t = "String" /\ value.v = "10" -> SetTo(10)
      [] OTHER -> Unset

toBoolean(value) ==
    CASE value.t = "Boolean" -> SetTo(value.v)
      [] value.t = "String" /\ value.v = "true" -> SetTo(TRUE)
      [] value.t = "String" /\ value.v = "false" -> SetTo(FALSE)
      [] OTHER -> [set |-> FALSE, v |-> FALSE]

optBoolean(json, name) ==
    IF has(json, name) /\ toBoolean(json.v[name]).set
    THEN toBoolean(json.v[name]).v
    ELSE FALSE

(***************************************************************************)
(* SsaiIntegration.from and AdIntegrationKind.from (THEOplayer SDK): the   *)
(* enum constant carrying the string, "null" when there is none.           *)
(***************************************************************************)
SsaiIntegrationFrom(str) ==
    CASE str = "google-dai" -> "GOOGLE_DAI"
      [] str = "yospace" -> "YOSPACE"
      [] OTHER -> "null"

AdIntegrationKindFrom(str) ==
    CASE str = "google-ima" -> "GOOGLE_IMA"
      [] str = "default" -> "DEFAULT"
      [] str = "theo" -> "THEO"
      [] str = "freewheel" -> "FREEWHEEL"
      [] str = "spotx" -> "SPOTX"
      [] OTHER -> "null"

(***************************************************************************)
(* parseTypedSource.  The TypedSource under construction is a record; the  *)
(* GoogleDaiTypedSource builder replaces the builder that held src.        *)
(***************************************************************************)
TypedSourceBuilder(src) ==
    [src |-> src, type |-> "unset", ssai |-> "none",
     liveOffset |-> Unset, hlsDateRange |-> [set |-> FALSE, v |-> FALSE],
     timeServer |-> ""]

GoogleDaiBuilder(config) == [TypedSourceBuilder("") EXCEPT !.ssai = config]

\* lines 140-181: the builder after the ssai block, or the exception it throws
SsaiBlockAlwaysLive(tsBuilder, sourceType, ssaiJson, f) ==
    LET ssaiIntegrationStr == optString(ssaiJson, "integration")
        ssaiIntegration == SsaiIntegrationFrom(ssaiIntegrationStr)
    IN  IF ssaiIntegrationStr = ""
        THEN Threw(THEOplayerException(ERROR_MISSING_SSAI_INTEGRATION, ""))
        ELSE IF ssaiIntegration = "null"
        THEN Threw(THEOplayerException(ERROR_UNSUPPORTED_SSAI_INTEGRATION, ssaiIntegrationStr))
        ELSE IF ssaiIntegration = "GOOGLE_DAI"
        THEN IF ~f.dai
             THEN Threw(THEOplayerException(ERROR_DAI_NOT_ENABLED, ""))
             ELSE LET b == GoogleDaiBuilder("GoogleDaiLiveConfiguration")
                  IN  Built(IF sourceType = "unset" THEN [b EXCEPT !.type = "DASH"] ELSE b)
        ELSE Built([tsBuilder EXCEPT !.ssai = "YoSpaceDescription"])

SsaiBlockSkipsInvalid(tsBuilder, sourceType, ssaiJson, f) ==
    LET ssaiIntegrationStr == optString(ssaiJson, "integration")
        ssaiIntegration == SsaiIntegrationFrom(ssaiIntegrationStr)
    IN  IF ssaiIntegration = "GOOGLE_DAI" /\ f.dai
        THEN LET b == GoogleDaiBuilder(
                        IF optString(ssaiJson, "availabilityType") = "vod"
                        THEN "GoogleDaiVodConfiguration"
                        ELSE "GoogleDaiLiveConfiguration")
             IN  Built(IF sourceType = "unset" THEN [b EXCEPT !.type = "DASH"] ELSE b)
        ELSE IF ssaiIntegration = "YOSPACE"
        THEN Built([tsBuilder EXCEPT !.ssai = "YoSpaceDescription"])
        ELSE Built(tsBuilder)

SsaiBlockDashForAll(tsBuilder, sourceType, ssaiJson, f) ==
    LET ssaiIntegrationStr == optString(ssaiJson, "integration")
        ssaiIntegration == SsaiIntegrationFrom(ssaiIntegrationStr)
    IN  IF ssaiIntegrationStr = ""
        THEN Threw(THEOplayerException(ERROR_MISSING_SSAI_INTEGRATION, ""))
        ELSE IF ssaiIntegration = "null"
        THEN Threw(THEOplayerException(ERROR_UNSUPPORTED_SSAI_INTEGRATION, ssaiIntegrationStr))
        ELSE IF ssaiIntegration = "GOOGLE_DAI"
        THEN IF ~f.dai
             THEN Threw(THEOplayerException(ERROR_DAI_NOT_ENABLED, ""))
             ELSE LET b == GoogleDaiBuilder(
                             IF optString(ssaiJson, "availabilityType") = "vod"
                             THEN "GoogleDaiVodConfiguration"
                             ELSE "GoogleDaiLiveConfiguration")
                  IN  Built(IF sourceType = "unset" THEN [b EXCEPT !.type = "DASH"] ELSE b)
        ELSE Built([tsBuilder EXCEPT !.ssai = "YoSpaceDescription",
                                     !.type = IF sourceType = "unset" THEN "DASH" ELSE @])

SsaiBlock(tsBuilder, sourceType, ssaiJson, f) ==
    LET ssaiIntegrationStr == optString(ssaiJson, "integration")
        ssaiIntegration == SsaiIntegrationFrom(ssaiIntegrationStr)
    IN  IF ssaiIntegrationStr = ""
        THEN Threw(THEOplayerException(ERROR_MISSING_SSAI_INTEGRATION, ""))
        ELSE IF ssaiIntegration = "null"
        THEN Threw(THEOplayerException(ERROR_UNSUPPORTED_SSAI_INTEGRATION, ssaiIntegrationStr))
        ELSE IF ssaiIntegration = "GOOGLE_DAI"
        THEN IF ~f.dai
             THEN Threw(THEOplayerException(ERROR_DAI_NOT_ENABLED, ""))
             ELSE LET b == GoogleDaiBuilder(
                             IF optString(ssaiJson, "availabilityType") = "vod"
                             THEN "GoogleDaiVodConfiguration"
                             ELSE "GoogleDaiLiveConfiguration")
                  IN  Built(IF sourceType = "unset" THEN [b EXCEPT !.type = "DASH"] ELSE b)
        ELSE IF ssaiIntegration = "YOSPACE"
        THEN Built([tsBuilder EXCEPT !.ssai = "YoSpaceDescription"])
        ELSE Threw(THEOplayerException(ERROR_UNSUPPORTED_SSAI_INTEGRATION, ssaiIntegrationStr))

\* lines 182-209: the fields copied after the ssai block
OptionalFields(tsBuilder, sourceType, jsonTypedSource) ==
    LET typed == IF sourceType # "unset" THEN [tsBuilder EXCEPT !.type = sourceType]
                 ELSE tsBuilder
        liveOffset == IF has(jsonTypedSource, "liveOffset")
                      THEN toDouble(jsonTypedSource.v["liveOffset"]) ELSE Unset
        hlsDateRange == IF has(jsonTypedSource, "hlsDateRange")
                        THEN toBoolean(jsonTypedSource.v["hlsDateRange"])
                        ELSE [set |-> FALSE, v |-> FALSE]
    IN  IF has(jsonTypedSource, "liveOffset") /\ ~liveOffset.set
        THEN ReturnedNull
        ELSE IF has(jsonTypedSource, "hlsDateRange") /\ ~hlsDateRange.set
        THEN ReturnedNull
        ELSE Built([typed EXCEPT !.liveOffset = liveOffset,
                                 !.hlsDateRange = hlsDateRange,
                                 !.timeServer = optString(jsonTypedSource, "timeServer")])

parseTypedSource(jsonTypedSource, f) ==
    LET tsBuilder == TypedSourceBuilder(optString(jsonTypedSource, "src"))
        sourceType == parseSourceType(jsonTypedSource)
    IN  IF has(jsonTypedSource, "ssai")
        THEN IF ~isJSONObject(jsonTypedSource, "ssai")
             THEN ReturnedNull
             ELSE LET afterSsai == SsaiBlock(tsBuilder, sourceType,
                                             jsonTypedSource.v["ssai"], f)
                  IN  IF afterSsai.kind = "value"
                      THEN OptionalFields(afterSsai.value, sourceType, jsonTypedSource)
                      ELSE afterSsai
        ELSE OptionalFields(tsBuilder, sourceType, jsonTypedSource)

(***************************************************************************)
(* parseImaAdFromJS and parseAdFromJS(JSONObject).                         *)
(***************************************************************************)
parseImaAdFromJS(jsonAdDescription, f) ==
    IF ~f.ima
    THEN Threw(THEOplayerException(ERROR_IMA_NOT_ENABLED, ""))
    ELSE LET source == IF isJSONObject(jsonAdDescription, "sources")
                       THEN optString(jsonAdDescription.v["sources"], "src")
                       ELSE optString(jsonAdDescription, "sources")
         IN  Built([integration |-> "google-ima", src |-> source,
                    timeOffset |-> optString(jsonAdDescription, "timeOffset")])

parseAdFromJSAcceptsAll(jsonAdDescription, f) ==
    LET integrationKindStr == optString(jsonAdDescription, "integration")
    IN  IF integrationKindStr = ""
        THEN Threw(THEOplayerException(ERROR_MISSING_CSAI_INTEGRATION, integrationKindStr))
        ELSE parseImaAdFromJS(jsonAdDescription, f)

parseAdFromJS(jsonAdDescription, f) ==
    LET integrationKindStr == optString(jsonAdDescription, "integration")
    IN  IF integrationKindStr # ""
        THEN IF AdIntegrationKindFrom(integrationKindStr) = "GOOGLE_IMA"
             THEN parseImaAdFromJS(jsonAdDescription, f)
             ELSE Threw(THEOplayerException(ERROR_UNSUPPORTED_CSAI_INTEGRATION,
                                            integrationKindStr))
        ELSE Threw(THEOplayerException(ERROR_MISSING_CSAI_INTEGRATION, integrationKindStr))

(***************************************************************************)
(* parseTextTrackKind and parseTextTrackFromJS: the !! on an unmapped kind *)
(* is a NullPointerException.                                              *)
(***************************************************************************)
parseTextTrackKind(kind) ==
    CASE kind = "subtitles" -> "SUBTITLES"
      [] kind = "metadata" -> "METADATA"
      [] kind = "captions" -> "CAPTIONS"
      [] kind = "chapters" -> "CHAPTERS"
      [] kind = "descriptions" -> "DESCRIPTIONS"
      [] OTHER -> "null"

parseTextTrackFromJS(jsonTextTrack) ==
    LET kind == parseTextTrackKind(optString(jsonTextTrack, "kind"))
    IN  IF kind = "null"
        THEN Crashed("NullPointerException")
        ELSE Built([src |-> optString(jsonTextTrack, "src"),
                    isDefault |-> optBoolean(jsonTextTrack, "default"),
                    label |-> optString(jsonTextTrack, "label"),
                    kind |-> kind])

(***************************************************************************)
(* parseMetadataDescription: every key is copied, "images" as the list of  *)
(* its images; a key whose parse throws JSONException is left out.         *)
(***************************************************************************)
toInteger(value) ==
    CASE value.t = "Double" -> SetTo(value.v)
      [] value.t = "String" /\ value.v = "10" -> SetTo(10)
      [] OTHER -> Unset

ImageOk(image) ==
    /\ image.t = "JSONObject"
    /\ has(image, "width") => toInteger(image.v["width"]).set
    /\ has(image, "height") => toInteger(image.v["height"]).set

parseMetadataImage(metadataImage) ==
    [src |-> optString(metadataImage, "src"),
     width |-> IF has(metadataImage, "width")
               THEN toInteger(metadataImage.v["width"]) ELSE Unset,
     height |-> IF has(metadataImage, "height")
                THEN toInteger(metadataImage.v["height"]) ELSE Unset]

ImagesOk(metadataDescription) ==
    /\ isJSONArray(metadataDescription, "images")
    /\ \A i \in DOMAIN metadataDescription.v["images"].v :
           ImageOk(metadataDescription.v["images"].v[i])

parseMetadataDescription(metadataDescription) ==
    LET kept == {key \in DOMAIN metadataDescription.v :
                    key = "images" => ImagesOk(metadataDescription)}
    IN  [key \in kept |->
            IF key = "images"
            THEN [t |-> "images",
                  v |-> [i \in DOMAIN metadataDescription.v["images"].v |->
                            parseMetadataImage(metadataDescription.v["images"].v[i])]]
            ELSE metadataDescription.v[key]]

(***************************************************************************)
(* parseSourceFromJS.  Each loop is a recursion over the array from index  *)
(* i with the list built so far; the first exception ends the call.        *)
(***************************************************************************)
RECURSIVE SourcesLoop(_, _, _, _)
SourcesLoop(jsonSources, i, typedSources, f) ==
    IF i > Len(jsonSources)
    THEN Built(typedSources)
    ELSE IF jsonSources[i].t # "JSONObject"
    THEN Crashed("ClassCastException")
    ELSE LET typedSource == parseTypedSource(jsonSources[i], f)
         IN  CASE typedSource.kind = "value" ->
                    SourcesLoop(jsonSources, i + 1, Append(typedSources, typedSource.value), f)
               [] typedSource.kind = "null" ->
                    SourcesLoop(jsonSources, i + 1, typedSources, f)
               [] OTHER -> typedSource

RECURSIVE AdsLoopSkipping(_, _, _, _)
AdsLoopSkipping(jsonAds, i, ads, f) ==
    IF i > Len(jsonAds)
    THEN Built(ads)
    ELSE IF jsonAds[i].t # "JSONObject"
    THEN Crashed("ClassCastException")
    ELSE LET ad == parseAdFromJS(jsonAds[i], f)
         IN  IF ad.kind = "value"
             THEN AdsLoopSkipping(jsonAds, i + 1, Append(ads, ad.value), f)
             ELSE AdsLoopSkipping(jsonAds, i + 1, ads, f)

RECURSIVE AdsLoop(_, _, _, _)
AdsLoop(jsonAds, i, ads, f) ==
    IF i > Len(jsonAds)
    THEN Built(ads)
    ELSE IF jsonAds[i].t # "JSONObject"
    THEN Crashed("ClassCastException")
    ELSE LET ad == parseAdFromJS(jsonAds[i], f)
         IN  IF ad.kind = "value"
             THEN AdsLoop(jsonAds, i + 1, Append(ads, ad.value), f)
             ELSE ad

RECURSIVE TextTracksLoop(_, _, _)
TextTracksLoop(textTracks, i, sideLoadedTextTracks) ==
    IF i > Len(textTracks)
    THEN Built(sideLoadedTextTracks)
    ELSE IF textTracks[i].t # "JSONObject"
    THEN Crashed("ClassCastException")
    ELSE LET track == parseTextTrackFromJS(textTracks[i])
         IN  IF track.kind = "value"
             THEN TextTracksLoop(textTracks, i + 1, Append(sideLoadedTextTracks, track.value))
             ELSE track

\* lines 74-88: sources as an array or as a single object
TypedSourcesBareFatal(jsonSourceObject, f) ==
    IF isJSONArray(jsonSourceObject, "sources")
    THEN SourcesLoop(jsonSourceObject.v["sources"].v, 1, <<>>, f)
    ELSE IF ~isJSONObject(jsonSourceObject, "sources")
    THEN ReturnedNull
    ELSE LET typedSource == parseTypedSource(jsonSourceObject.v["sources"], f)
         IN  IF typedSource.kind = "value"
             THEN Built(<<typedSource.value>>)
             ELSE typedSource

TypedSources(jsonSourceObject, f) ==
    IF isJSONArray(jsonSourceObject, "sources")
    THEN SourcesLoop(jsonSourceObject.v["sources"].v, 1, <<>>, f)
    ELSE IF ~isJSONObject(jsonSourceObject, "sources")
    THEN ReturnedNull
    ELSE LET typedSource == parseTypedSource(jsonSourceObject.v["sources"], f)
         IN  CASE typedSource.kind = "value" -> Built(<<typedSource.value>>)
               [] typedSource.kind = "null" -> Built(<<>>)
               [] OTHER -> typedSource

\* lines 100-110
Ads(jsonSourceObject, f) ==
    IF isJSONArray(jsonSourceObject, "ads")
    THEN AdsLoop(jsonSourceObject.v["ads"].v, 1, <<>>, f)
    ELSE Built(<<>>)

\* lines 112-120
SideLoadedTextTracks(jsonSourceObject) ==
    IF isJSONArray(jsonSourceObject, "textTracks")
    THEN TextTracksLoop(jsonSourceObject.v["textTracks"].v, 1, <<>>)
    ELSE Built(<<>>)

\* lines 90-98
Metadata(jsonSourceObject) ==
    IF isJSONObject(jsonSourceObject, "metadata")
    THEN [set |-> TRUE, v |-> parseMetadataDescription(jsonSourceObject.v["metadata"])]
    ELSE [set |-> FALSE, v |-> EmptyMap]

parseSourceFromJS(source, f) ==
    LET hashmap == eliminateReadablesMap(source)
        jsonSourceObject == ToJson(hashmap)
        typedSources == TypedSources(jsonSourceObject, f)
        ads == Ads(jsonSourceObject, f)
        sideLoadedTextTracks == SideLoadedTextTracks(jsonSourceObject)
    IN  IF typedSources.kind # "value" THEN typedSources
        ELSE IF ads.kind # "value" THEN ads
        ELSE IF sideLoadedTextTracks.kind # "value" THEN sideLoadedTextTracks
        ELSE Built([sources |-> typedSources.value,
                    poster |-> optString(jsonSourceObject, "poster"),
                    metadata |-> Metadata(jsonSourceObject),
                    ads |-> ads.value,
                    textTracks |-> sideLoadedTextTracks.value])

NoResult == [kind |-> "none"]

(***************************************************************************)
(* TextTrack.ts: helpers over a list of text tracks and over the cue list  *)
(* of one track.  A JavaScript array reference is [isNull, items]: isNull  *)
(* stands for null/undefined, which the helpers' `&&` guards test.  A      *)
(* track is [uid, label, cues], a cue is [uid, content]; uid 0 is kept for *)
(* the undefined argument.  Two objects with one uid may differ in label   *)
(* (content): the helpers compare uid only.                                *)
(***************************************************************************)
NumUids == 3      \* distinct uids of tracks (of cues) the helpers are called with

Uids == 1..NumUids
Labels == {"en", "fr"}
Contents == {"hello", "world"}

JsArray(items) == [isNull |-> FALSE, items |-> items]
NullArray == [isNull |-> TRUE, items |-> <<>>]
IsArray(a) == ~a.isNull

TextTrackCue(uid, content) == [uid |-> uid, content |-> content]
TextTrack(uid, label, cues) == [uid |-> uid, label |-> label, cues |-> cues]
UndefinedCue == [uid |-> 0, content |-> "undefined"]
UndefinedTrack == [uid |-> 0, label |-> "undefined", cues |-> NullArray]
IsTruthy(x) == x \notin {UndefinedCue, UndefinedTrack}

\* Array.prototype.find with a uid predicate: some element matches.
FindsUid(items, uid) == \E i \in 1..Len(items) : items[i].uid = uid
\* Array.prototype.filter keeping the elements whose uid differs.
FilterOutUid(items, uid) == SelectSeq(items, LAMBDA x : x.uid # uid)

hasTextTrack(list, track) ==
    IsArray(list) /\ IsTruthy(track) /\ FindsUid(list.items, track.uid)

removeTextTrack(list, track) ==
    IF IsArray(list) /\ IsTruthy(track)
    THEN JsArray(FilterOutUid(list.items, track.uid))
    ELSE list

\* addTextTrack without the hasTextTrack test
addTextTrackAlways(list, track) ==
    IF IsArray(list) /\ IsTruthy(track)
    THEN JsArray(Append(list.items, track))
    ELSE list

addTextTrack(list, track) ==
    IF IsArray(list) /\ IsTruthy(track) /\ ~hasTextTrack(list, track)
    THEN JsArray(Append(list.items, track))
    ELSE list

hasTextTrackCue(track, cue) ==
    IsArray(track.cues) /\ IsTruthy(cue) /\ FindsUid(track.cues.items, cue.uid)

\* the track after the call (cues is assigned in place)
removeTextTrackCue(track, cue) ==
    IF IsTruthy(track) /\ IsArray(track.cues) /\ IsTruthy(cue) /\ ~hasTextTrackCue(track, cue)
    THEN [track EXCEPT !.cues = JsArray(FilterOutUid(track.cues.items, cue.uid))]
    ELSE track

\* the track after the call (cues.push mutates the list in place)
addTextTrackCue(track, cue) ==
    IF IsTruthy(track) /\ IsArray(track.cues) /\ IsTruthy(cue) /\ ~hasTextTrackCue(track, cue)
    THEN [track EXCEPT !.cues = JsArray(Append(track.cues.items, cue))]
    ELSE track

\* the first track with this uid, UndefinedTrack when there is none
\* (called on lists only: find on null raises a TypeError)
findTextTrackByUid(textTracks, uid) ==
    IF FindsUid(textTracks.items, uid)
    THEN textTracks.items[CHOOSE i \in 1..Len(textTracks.items) :
             /\ textTracks.items[i].uid = uid
             /\ \A j \in 1..(i - 1) : textTracks.items[j].uid # uid]
    ELSE UndefinedTrack

NoCalls == [u \in Uids |-> "none"]

\* the specifications of SourceAdapter hold no tracks
NoTracks ==
    /\ textTrackList = NullArray
    /\ textTrack = UndefinedTrack
    /\ lastCall = NoCalls

(***************************************************************************)
(* Specification of parseSourceType: one source object, its type hint and  *)
(* its src drawn from the universes below, passed through the sanitizer    *)
(* and the JSON conversion as parseSourceFromJS does.                      *)
(***************************************************************************)
TypeHints ==
    {Str("application/dash+xml"), Str("application/x-mpegurl"),
     Str("application/vnd.theo.hesp+json"), Str("application/vnd.apple.mpegurl"),
     Str("video/mp4"), Str("audio/mpeg"), Str("video/webm"), Str("VIDEO/MP4"),
     Str(""), Null, Num(5)}

SrcStrings ==
    {"v.mpd", "v.m3u8", "v.mp4", "v.mp3", "v.bin", "v.MPD", "v.mp4?t",
     ".mpd", "mpd", "v.mpd.mp3", ""}

Field(name, present, value) == IF present THEN name :> value ELSE EmptyMap

TypeInputs ==
    { JavaOnlyMap(Field("type", tp, th) @@ Field("src", sp, Str(s))) :
        tp \in BOOLEAN, th \in TypeHints, sp \in BOOLEAN, s \in SrcStrings }

InitType ==
    /\ call \in [op : {"parseSourceType"}, arg : TypeInputs]
    /\ flags \in [dai : {TRUE}, ima : {TRUE}]
    /\ pc = "start"
    /\ result = NoResult
    /\ NoTracks

ParseSourceType ==
    /\ pc = "start"
    /\ call.op = "parseSourceType"
    /\ result' = [kind |-> "type",
                  type |-> parseSourceType(ToJson(eliminateReadablesMap(call.arg)))]
    /\ pc' = "done"
    /\ UNCHANGED <<call, flags, textTrackList, textTrack, lastCall>>

NextType == ParseSourceType

SpecType == InitType /\ [][NextType]_vars

(***************************************************************************)
(* Input builders: bridge is the ReadableMap implementation of the input   *)
(* ("native": what the JS bridge delivers, "javaonly": JavaOnlyMap).       *)
(***************************************************************************)
Bridges == {"native", "javaonly"}

MapOf(bridge, f) == IF bridge = "native" THEN NativeMap(f) ELSE JavaOnlyMap(f)
ArrayOf(bridge, s) == IF bridge = "native" THEN NativeArray(s) ELSE JavaOnlyArray(s)

(***************************************************************************)
(* Specification of parseTypedSource: one source object.                   *)
(***************************************************************************)
SsaiValues(bridge) ==
    {Str("yospace")}
    \cup { MapOf(bridge, Field("integration", ip, Str(i))
                         @@ Field("availabilityType", ap, Str(a))) :
             ip \in BOOLEAN, i \in {"", "google-dai", "yospace", "mediatailor"},
             ap \in BOOLEAN, a \in {"vod", "live", "VOD", ""} }

LiveOffsetValues == {Num(10), Str("10"), Str("abc")}

TypedSourceInputs ==
    { MapOf(bridge, Field("type", tp, Str(th)) @@ Field("src", TRUE, Str(s))
                    @@ Field("ssai", sp, ss) @@ Field("liveOffset", lp, lo)) :
        bridge \in {"javaonly"},
        tp \in BOOLEAN, th \in {"video/mp4", "video/webm"}, s \in {"v.mpd", "v.bin"},
        sp \in BOOLEAN, ss \in SsaiValues("javaonly"),
        lp \in BOOLEAN, lo \in LiveOffsetValues }
    \cup
    { NativeMap(Field("type", tp, Str(th)) @@ Field("src", TRUE, Str(s))
                @@ Field("ssai", sp, ss) @@ Field("hlsDateRange", hp, hd)) :
        tp \in BOOLEAN, th \in {"video/mp4"}, s \in {"v.bin"},
        sp \in BOOLEAN, ss \in SsaiValues("native"),
        hp \in BOOLEAN, hd \in {Bool(TRUE), Str("yes")} }

InitTypedSource ==
    /\ call \in [op : {"parseTypedSource"}, arg : TypedSourceInputs]
    /\ flags \in [dai : BOOLEAN, ima : {TRUE}]
    /\ pc = "start"
    /\ result = NoResult
    /\ NoTracks

ParseTypedSource ==
    /\ pc = "start"
    /\ call.op = "parseTypedSource"
    /\ result' = parseTypedSource(ToJson(eliminateReadablesMap(call.arg)), flags)
    /\ pc' = "done"
    /\ UNCHANGED <<call, flags, textTrackList, textTrack, lastCall>>

NextTypedSource == ParseTypedSource

SpecTypedSource == InitTypedSource /\ [][NextTypedSource]_vars

(***************************************************************************)
(* Specification of parseAdFromJS: one ad descriptor.                      *)
(***************************************************************************)
AdIntegrations ==
    {"", "google-ima", "default", "theo", "freewheel", "spotx", "vmap-x"}

AdSourcesValues(bridge) ==
    {Str("ad.xml"), Str(""), MapOf(bridge, "src" :> Str("ad.xml")), MapOf(bridge, EmptyMap),
     MapOf(bridge, "src" :> Str("other.xml"))}

AdInputs ==
    { MapOf(bridge, Field("integration", ip, Str(i)) @@ Field("sources", sp, ss)
                    @@ Field("timeOffset", tp, Str(t))) :
        bridge \in {"javaonly"}, ip \in BOOLEAN, i \in AdIntegrations,
        sp \in BOOLEAN, ss \in AdSourcesValues("javaonly"),
        tp \in BOOLEAN, t \in {"10%", "start"} }
    \cup
    { NativeMap(Field("integration", TRUE, Str(i)) @@ Field("sources", TRUE, ss)) :
        i \in {"google-ima", "theo"}, ss \in AdSourcesValues("native") }

InitAd ==
    /\ call \in [op : {"parseAdFromJS"}, arg : AdInputs]
    /\ flags \in [dai : {TRUE}, ima : BOOLEAN]
    /\ pc = "start"
    /\ result = NoResult
    /\ NoTracks

ParseAdFromJS ==
    /\ pc = "start"
    /\ call.op = "parseAdFromJS"
    /\ result' = parseAdFromJS(ToJson(eliminateReadablesMap(call.arg)), flags)
    /\ pc' = "done"
    /\ UNCHANGED <<call, flags, textTrackList, textTrack, lastCall>>

NextAd == ParseAdFromJS

SpecAd == InitAd /\ [][NextAd]_vars

(***************************************************************************)
(* Specification of parseSourceFromJS: a whole configuration.  An input    *)
(* has at most MaxEntries array entries in sources, ads and textTracks     *)
(* together; sources is absent, a string, one bare object or an array.     *)
(***************************************************************************)
SourceObjects(bridge) ==
    { MapOf(bridge, "src" :> Str("v.mp4")),
      MapOf(bridge, ("src" :> Str("v.bin")) @@ ("liveOffset" :> Str("abc"))),
      MapOf(bridge, ("src" :> Str("v.bin")) @@ ("ssai" :> MapOf(bridge, EmptyMap))),
      MapOf(bridge, ("src" :> Str("v.bin"))
                    @@ ("ssai" :> MapOf(bridge, "integration" :> Str("mediatailor")))),
      MapOf(bridge, ("src" :> Str("v.bin"))
                    @@ ("ssai" :> MapOf(bridge, ("integration" :> Str("google-dai"))
                                                @@ ("availabilityType" :> Str("vod"))))),
      MapOf(bridge, ("src" :> Str("v.mpd"))
                    @@ ("ssai" :> MapOf(bridge, "integration" :> Str("yospace")))) }

SourceEntries(bridge) == SourceObjects(bridge) \cup {Str("v.mp4")}

AdEntries(bridge) ==
    { MapOf(bridge, ("integration" :> Str("google-ima")) @@ ("sources" :> Str("ad.xml"))
                    @@ ("timeOffset" :> Str("10%"))),
      MapOf(bridge, ("integration" :> Str("google-ima"))
                    @@ ("sources" :> MapOf(bridge, "src" :> Str("other.xml")))),
      MapOf(bridge, EmptyMap),
      MapOf(bridge, "integration" :> Str("theo")),
      Str("ad.xml") }

TrackEntries(bridge) ==
    { MapOf(bridge, ("src" :> Str("t.vtt")) @@ ("kind" :> Str("subtitles"))
                    @@ ("label" :> Str("EN")) @@ ("default" :> Bool(TRUE))),
      MapOf(bridge, ("src" :> Str("c.vtt")) @@ ("kind" :> Str("captions"))),
      MapOf(bridge, "src" :> Str("t.vtt")),
      MapOf(bridge, ("src" :> Str("t.vtt")) @@ ("kind" :> Str("thumbnails"))) }

Arrays(bridge, entries, n) == { ArrayOf(bridge, s) : s \in [1..n -> entries] }

\* the values of the key sources that hold n entries, as fields of the input
SourcesFields(bridge, n) ==
    { "sources" :> a : a \in Arrays(bridge, SourceEntries(bridge), n) }
    \cup (IF n = 0 THEN {EmptyMap, "sources" :> Str("v.mp4")} ELSE {})
    \cup (IF n = 1 THEN { "sources" :> o : o \in SourceObjects(bridge) } ELSE {})

ArrayFields(name, bridge, entries, n) ==
    { name :> a : a \in Arrays(bridge, entries, n) }
    \cup (IF n = 0 THEN {EmptyMap} ELSE {})

RestFields(bridge) ==
    { EmptyMap,
      ("poster" :> Str("p.png"))
      @@ ("metadata" :> MapOf(bridge,
             ("title" :> Str("T"))
             @@ ("images" :> ArrayOf(bridge,
                    <<MapOf(bridge, ("src" :> Str("i.png")) @@ ("width" :> Num(10)))>>)))) }

Init ==
    /\ \E bridge \in Bridges, ns \in 0..MaxEntries :
         \E na \in 0..(MaxEntries - ns) :
           \E nt \in 0..(MaxEntries - ns - na) :
             \E s \in SourcesFields(bridge, ns),
                a \in ArrayFields("ads", bridge, AdEntries(bridge), na),
                t \in ArrayFields("textTracks", bridge, TrackEntries(bridge), nt),
                r \in RestFields(bridge) :
               call = [op |-> "parseSourceFromJS", arg |-> MapOf(bridge, s @@ a @@ t @@ r)]
    /\ flags \in [dai : BOOLEAN, ima : BOOLEAN]
    /\ pc = "start"
    /\ result = NoResult
    /\ NoTracks

ParseSourceFromJS ==
    /\ pc = "start"
    /\ call.op = "parseSourceFromJS"
    /\ result' = parseSourceFromJS(call.arg, flags)
    /\ pc' = "done"
    /\ UNCHANGED <<call, flags, textTrackList, textTrack, lastCall>>

Next == ParseSourceFromJS

Spec == Init /\ [][Next]_vars

(***************************************************************************)
(* Specification of eliminateReadables: every ReadableMap of at most       *)
(* MaxNodes nodes (a scalar or a container is one node).  A container of   *)
(* the bridge holds only containers of the bridge; a JavaOnly container    *)
(* holds containers of both implementations.                               *)
(***************************************************************************)
Scalars == {Str("s"), Num(5), Null}

KeyName(i) ==
    CASE i = 1 -> "a"
      [] i = 2 -> "b"
      [] i = 3 -> "c"
      [] i = 4 -> "d"
      [] OTHER -> "e"

AsMap(children) ==
    [k \in {KeyName(i) : i \in DOMAIN children} |->
        children[CHOOSE i \in DOMAIN children : KeyName(i) = k]]

RECURSIVE Trees(_, _), ChildLists(_, _)
\* the trees of exactly n nodes that a container may hold
Trees(n, insideNative) ==
    (IF n = 1 THEN Scalars ELSE {})
    \cup { NativeArray(cs) : cs \in ChildLists(n - 1, TRUE) }
    \cup { NativeMap(AsMap(cs)) : cs \in ChildLists(n - 1, TRUE) }
    \cup (IF insideNative THEN {}
          ELSE { JavaOnlyArray(cs) : cs \in ChildLists(n - 1, FALSE) }
               \cup { JavaOnlyMap(AsMap(cs)) : cs \in ChildLists(n - 1, FALSE) })

\* the sequences of trees of m nodes in all
ChildLists(m, insideNative) ==
    IF m = 0 THEN {<<>>}
    ELSE UNION { { <<c>> \o rest : c \in Trees(k, insideNative),
                                   rest \in ChildLists(m - k, insideNative) } :
                 k \in 1..m }

SanitizeInputs ==
    { x \in UNION { Trees(n, FALSE) : n \in 1..MaxNodes } : IsReadableMap(x) }

InitSanitize ==
    /\ call \in [op : {"eliminateReadables"}, arg : SanitizeInputs]
    /\ flags \in [dai : {TRUE}, ima : {TRUE}]
    /\ pc = "start"
    /\ result = NoResult
    /\ NoTracks

EliminateReadables ==
    /\ pc = "start"
    /\ call.op = "eliminateReadables"
    /\ result' = eliminateReadablesMap(call.arg)
    /\ pc' = "done"
    /\ UNCHANGED <<call, flags, textTrackList, textTrack, lastCall>>

NextSanitize == EliminateReadables

SpecSanitize == InitSanitize /\ [][NextSanitize]_vars

(***************************************************************************)
(* Reading the raw (unsanitized) input of a call, for the statements.      *)
(***************************************************************************)
RawHas(node, name) == name \in DOMAIN node.v /\ node.v[name].t # "Null"

RawString(node, name) ==
    IF RawHas(node, name) /\ node.v[name].t = "String" THEN node.v[name].v ELSE ""

RawHasMap(node, name) == RawHas(node, name) /\ IsReadableMap(node.v[name])

Done(op) == pc = "done" /\ call.op = op

(***************************************************************************)
(* The reference tables of the content-type resolver.                      *)
(***************************************************************************)
MimeTable(hint) ==
    CASE hint = "application/dash+xml" -> "DASH"
      [] hint = "application/x-mpegurl" -> "HLSX"
      [] hint = "application/vnd.theo.hesp+json" -> "HESP"
      [] hint = "application/vnd.apple.mpegurl" -> "HLS"
      [] hint = "video/mp4" -> "MP4"
      [] hint = "audio/mpeg" -> "MP3"
      [] OTHER -> "unset"

SuffixTable(src) ==
    CASE src \in {"v.mpd", ".mpd"} -> "DASH"
      [] src \in {"v.m3u8"} -> "HLSX"
      [] src \in {"v.mp4"} -> "MP4"
      [] src \in {"v.mp3", "v.mpd.mp3"} -> "MP3"
      [] OTHER -> "unset"

HintIsEmpty(arg) == ~RawHas(arg, "type") \/ arg.v["type"] = Str("")

\* C3: parseSourceType equals the MIME table on every non-empty type hint,
\* whatever the suffix of src, and the suffix table on src only when the hint
\* is empty or absent.
C3_ResolveTypeMatchesTables ==
    Done("parseSourceType") =>
        result.type = IF HintIsEmpty(call.arg)
                      THEN SuffixTable(RawString(call.arg, "src"))
                      ELSE MimeTable(RawString(call.arg, "type"))

\* a recognized MIME hint wins over a src whose suffix names another type
C3_Witness ==
    /\ Done("parseSourceType")
    /\ RawString(call.arg, "type") = "video/mp4"
    /\ RawString(call.arg, "src") = "v.mpd"
    /\ result.type = "MP4"

(***************************************************************************)
(* Statements about parseTypedSource.                                      *)
(***************************************************************************)
SsaiIntegrationOf(arg) ==
    IF RawHasMap(arg, "ssai") THEN RawString(arg.v["ssai"], "integration") ELSE ""

AvailabilityTypeOf(arg) ==
    IF RawHasMap(arg, "ssai") THEN RawString(arg.v["ssai"], "availabilityType") ELSE ""

ResolvedType(arg) ==
    IF HintIsEmpty(arg) THEN SuffixTable(RawString(arg, "src"))
    ELSE MimeTable(RawString(arg, "type"))

\* C4: a built google-dai source whose type did not resolve has type DASH; a
\* resolved type is kept; a yospace source or a source without ssai keeps an
\* unresolved type unset.
C4_DashDefaultOnlyForDai ==
    Done("parseTypedSource") /\ result.kind = "value" =>
        result.value.type =
            IF ResolvedType(call.arg) # "unset" THEN ResolvedType(call.arg)
            ELSE IF SsaiIntegrationOf(call.arg) = "google-dai" THEN "DASH"
            ELSE "unset"

C4_Witness ==
    /\ Done("parseTypedSource")
    /\ result.kind = "value"
    /\ SsaiIntegrationOf(call.arg) = "google-dai"
    /\ ResolvedType(call.arg) = "unset"
    /\ result.value.type = "DASH"

\* C5: with DAI enabled a google-dai block yields the VOD configuration exactly
\* when availabilityType is "vod" and the Live configuration otherwise; a
\* yospace block yields the YoSpace description; a built source with an ssai
\* block carries exactly one of the three.
C5_SsaiVariant ==
    Done("parseTypedSource") /\ result.kind = "value" =>
        result.value.ssai =
            IF ~RawHasMap(call.arg, "ssai") THEN "none"
            ELSE IF SsaiIntegrationOf(call.arg) = "yospace" THEN "YoSpaceDescription"
            ELSE IF AvailabilityTypeOf(call.arg) = "vod" THEN "GoogleDaiVodConfiguration"
            ELSE "GoogleDaiLiveConfiguration"

\* availabilityType "VOD" is not "vod": the Live configuration
C5_Witness ==
    /\ Done("parseTypedSource")
    /\ flags.dai
    /\ SsaiIntegrationOf(call.arg) = "google-dai"
    /\ AvailabilityTypeOf(call.arg) = "VOD"
    /\ result.kind = "value"
    /\ result.value.ssai = "GoogleDaiLiveConfiguration"

(***************************************************************************)
(* Statements about parseAdFromJS.                                         *)
(***************************************************************************)
AdSourceOf(arg) ==
    IF RawHasMap(arg, "sources") THEN RawString(arg.v["sources"], "src")
    ELSE RawString(arg, "sources")

ErrorKind(e) ==
    CASE e.msg = ERROR_MISSING_SSAI_INTEGRATION -> "MissingSsaiIntegration"
      [] e.msg = ERROR_UNSUPPORTED_SSAI_INTEGRATION -> "UnsupportedSsaiIntegration"
      [] e.msg = ERROR_MISSING_CSAI_INTEGRATION -> "MissingCsaiIntegration"
      [] e.msg = ERROR_UNSUPPORTED_CSAI_INTEGRATION -> "UnsupportedCsaiIntegration"
      [] e.msg \in {ERROR_DAI_NOT_ENABLED, ERROR_IMA_NOT_ENABLED} -> "FeatureNotEnabled"
      [] OTHER -> "none"

\* C6: parseAdFromJS fails with MissingCsaiIntegration on an absent or empty
\* integration, with FeatureNotEnabled on google-ima when IMA is disabled, with
\* UnsupportedCsaiIntegration on every other integration, and on google-ima
\* with IMA enabled builds the ad whose source is the sources string, or
\* sources.src, and whose timeOffset is the node's (empty when absent).
C6_ResolveAdOutcome ==
    Done("parseAdFromJS") =>
        LET integration == RawString(call.arg, "integration")
        IN  CASE integration = "" ->
                    /\ result.kind = "threw"
                    /\ ErrorKind(result.err) = "MissingCsaiIntegration"
              [] integration = "google-ima" /\ ~flags.ima ->
                    /\ result.kind = "threw"
                    /\ ErrorKind(result.err) = "FeatureNotEnabled"
              [] integration = "google-ima" /\ flags.ima ->
                    /\ result.kind = "value"
                    /\ result.value.src = AdSourceOf(call.arg)
                    /\ result.value.timeOffset = RawString(call.arg, "timeOffset")
              [] OTHER ->
                    /\ result.kind = "threw"
                    /\ ErrorKind(result.err) = "UnsupportedCsaiIntegration"
                    /\ result.err.detail = integration

\* sources given as an object: the ad's source is its src
C6_Witness ==
    /\ Done("parseAdFromJS")
    /\ flags.ima
    /\ RawHasMap(call.arg, "sources")
    /\ RawString(call.arg, "timeOffset") = "10%"
    /\ result.kind = "value"
    /\ result.value.src = "ad.xml"
    /\ result.value.timeOffset = "10%"


(***************************************************************************)
(* Statements about parseSourceFromJS.                                     *)
(***************************************************************************)
RawArray(arg, name) ==
    IF RawHas(arg, name) /\ IsReadableArray(arg.v[name]) THEN arg.v[name].v ELSE <<>>

\* the source entries in the order parseSourceFromJS meets them
RawSourceEntries(arg) ==
    IF RawHasMap(arg, "sources") THEN <<arg.v["sources"]>> ELSE RawArray(arg, "sources")

SourcesIsObjectOrArray(arg) ==
    RawHasMap(arg, "sources") \/ (RawHas(arg, "sources") /\ IsReadableArray(arg.v["sources"]))

\* what the ssai block of entry e must fail with: <<kind, offending string>>
SsaiErrorOf(e) ==
    LET i == SsaiIntegrationOf(e)
    IN  CASE i = "" -> <<"MissingSsaiIntegration", "">>
          [] i \notin {"google-dai", "yospace"} -> <<"UnsupportedSsaiIntegration", i>>
          [] i = "google-dai" /\ ~flags.dai -> <<"FeatureNotEnabled", "">>
          [] OTHER -> <<"none", "">>

SsaiFails(e) == IsReadableMap(e) /\ RawHasMap(e, "ssai") /\ SsaiErrorOf(e)[1] # "none"

\* an entry at which the sources loop ends the call
EndsSourcesLoop(e) == ~IsReadableMap(e) \/ SsaiFails(e)

AdRejected(e) ==
    IsReadableMap(e) /\ (RawString(e, "integration") # "google-ima" \/ ~flags.ima)

AdErrorOf(e) ==
    CASE RawString(e, "integration") = "" -> <<"MissingCsaiIntegration", "">>
      [] RawString(e, "integration") # "google-ima" ->
            <<"UnsupportedCsaiIntegration", RawString(e, "integration")>>
      [] OTHER -> <<"FeatureNotEnabled", "">>

SomeAdRejected(arg) == \E k \in DOMAIN RawArray(arg, "ads") : AdRejected(RawArray(arg, "ads")[k])

FirstRejectedAd(arg) ==
    LET ads == RawArray(arg, "ads")
        k == CHOOSE i \in DOMAIN ads :
                AdRejected(ads[i]) /\ \A j \in 1..(i - 1) : ~AdRejected(ads[j])
    IN  ads[k]

C2_SsaiFailureAborts ==
    Done("parseSourceFromJS") =>
        LET es == RawSourceEntries(call.arg)
        IN  \A k \in DOMAIN es :
                SsaiFails(es[k]) =>
                    /\ result.kind # "value"
                    /\ (\A j \in 1..(k - 1) : ~EndsSourcesLoop(es[j]))
                         => /\ result.kind = "threw"
                            /\ ErrorKind(result.err) = SsaiErrorOf(es[k])[1]
                            /\ result.err.detail = SsaiErrorOf(es[k])[2]

\* a valid source followed by one with an unsupported ssai integration
C2_Witness ==
    /\ Done("parseSourceFromJS")
    /\ Len(RawSourceEntries(call.arg)) = 2
    /\ ~EndsSourcesLoop(RawSourceEntries(call.arg)[1])
    /\ SsaiFails(RawSourceEntries(call.arg)[2])
    /\ result.kind = "threw"
    /\ ErrorKind(result.err) = "UnsupportedSsaiIntegration"
    /\ result.err.detail = "mediatailor"

\* C7 as stated: a returned SourceDescription holds at least one TypedSource.
C7_SourcesNeverEmpty ==
    Done("parseSourceFromJS") /\ result.kind = "value" =>
        Len(result.value.sources) >= 1

TrackMalformed(e) ==
    RawString(e, "kind") \notin {"subtitles", "captions", "descriptions", "chapters", "metadata"}

WellFormedTracks(arg) ==
    {k \in DOMAIN RawArray(arg, "textTracks") : ~TrackMalformed(RawArray(arg, "textTracks")[k])}

\* C8 as stated: when nothing but a malformed text track is wrong with the
\* input, the call returns a SourceDescription that holds the typed sources and
\* the well-formed text tracks.
C8_MalformedTrackDropped ==
    ( /\ Done("parseSourceFromJS")
      /\ SourcesIsObjectOrArray(call.arg)
      /\ \A k \in DOMAIN RawSourceEntries(call.arg) :
            ~EndsSourcesLoop(RawSourceEntries(call.arg)[k])
      /\ \A k \in DOMAIN RawArray(call.arg, "ads") :
            IsReadableMap(RawArray(call.arg, "ads")[k]) /\ ~AdRejected(RawArray(call.arg, "ads")[k])
      /\ WellFormedTracks(call.arg) # DOMAIN RawArray(call.arg, "textTracks") )
    => /\ result.kind = "value"
       /\ Len(result.value.textTracks) = Cardinality(WellFormedTracks(call.arg))

\* C9: sources given as the bare object s has the outcome of sources given as
\* the one-element array of s, the rest of the input being the same.
InArray(arg) ==
    [arg EXCEPT !.v["sources"] =
        IF arg.t = "ReadableNativeMap" THEN NativeArray(<<@>>) ELSE JavaOnlyArray(<<@>>)]

C9_BareObjectAsOneElementArray ==
    Done("parseSourceFromJS") /\ RawHasMap(call.arg, "sources") =>
        result = parseSourceFromJS(InArray(call.arg), flags)

\* a bare source that fails structural parsing is skipped as in an array: the
\* call goes on and returns a description
C9_Witness ==
    /\ Done("parseSourceFromJS")
    /\ RawHasMap(call.arg, "sources")
    /\ RawHas(call.arg.v["sources"], "liveOffset")
    /\ RawHas(call.arg, "poster")
    /\ result.kind = "value"
    /\ result.value.sources = <<>>


(***************************************************************************)
(* Statements about eliminateReadables.                                    *)
(***************************************************************************)
\* a tree with the classes of its containers erased
RECURSIVE Shape(_)
Shape(n) ==
    IF IsMapLike(n) THEN [t |-> "mapping", v |-> [k \in DOMAIN n.v |-> Shape(n.v[k])]]
    ELSE IF IsArrayLike(n) THEN [t |-> "sequence", v |-> [i \in DOMAIN n.v |-> Shape(n.v[i])]]
    ELSE n

RECURSIVE NoForeign(_)
NoForeign(n) ==
    /\ ~IsReadableMap(n)
    /\ ~IsReadableArray(n)
    /\ (IsMapLike(n) \/ IsArrayLike(n)) => \A k \in DOMAIN n.v : NoForeign(n.v[k])

\* C10: the output of eliminateReadables has the keys, the elements in their
\* order and the scalars of its input, holds no ReadableMap or ReadableArray at
\* any depth, and sanitizing it again (as the ReadableMap wrapping it) gives it
\* back.
C10_SanitizerShapeAndIdempotence ==
    Done("eliminateReadables") =>
        /\ result.t = "HashMap"
        /\ Shape(result) = Shape(call.arg)
        /\ NoForeign(result)
        /\ eliminateReadablesMap(JavaOnlyMap(result.v)) = result

\* a JavaOnlyMap holding a JavaOnlyArray that holds a JavaOnlyMap: Readables
\* two levels below the root, all three replaced
C10_Witness ==
    /\ Done("eliminateReadables")
    /\ call.arg.t = "JavaOnlyMap"
    /\ "a" \in DOMAIN call.arg.v
    /\ call.arg.v["a"].t = "JavaOnlyArray"
    /\ Len(call.arg.v["a"].v) = 1
    /\ call.arg.v["a"].v[1].t = "JavaOnlyMap"
    /\ result.v["a"].t = "ArrayList"
    /\ result.v["a"].v[1].t = "HashMap"

(***************************************************************************)
(* Specification of the cue helpers: one track, whose cue list is null or  *)
(* starts empty, and any sequence of addTextTrackCue / removeTextTrackCue  *)
(* calls on it.  call is the last call made, lastCall its history per uid. *)
(***************************************************************************)
Cues == {TextTrackCue(u, c) : u \in Uids, c \in Contents}
CueArgs == Cues \cup {UndefinedCue}

NoCall == [op |-> "none", arg |-> UndefinedCue]
Called(cue, op) == IF IsTruthy(cue) THEN [lastCall EXCEPT ![cue.uid] = op] ELSE lastCall

InitCues ==
    /\ call = NoCall
    /\ flags = [dai |-> FALSE, ima |-> FALSE]
    /\ pc = "start"
    /\ result = NoResult
    /\ textTrackList = NullArray
    /\ textTrack \in {TextTrack(1, "en", cues) : cues \in {NullArray, JsArray(<<>>)}}
    /\ lastCall = NoCalls

AddTextTrackCue ==
    \E cue \in CueArgs :
        /\ textTrack' = addTextTrackCue(textTrack, cue)
        /\ call' = [op |-> "addTextTrackCue", arg |-> cue]
        /\ lastCall' = Called(cue, "add")
        /\ UNCHANGED <<flags, pc, result, textTrackList>>

RemoveTextTrackCue ==
    \E cue \in CueArgs :
        /\ textTrack' = removeTextTrackCue(textTrack, cue)
        /\ call' = [op |-> "removeTextTrackCue", arg |-> cue]
        /\ lastCall' = Called(cue, "remove")
        /\ UNCHANGED <<flags, pc, result, textTrackList>>

NextCues == AddTextTrackCue \/ RemoveTextTrackCue
SpecCues == InitCues /\ [][NextCues]_vars

\* C11: on a track with non-null cues, after any sequence of addTextTrackCue
\* and removeTextTrackCue calls, hasTextTrackCue(track, c) is true exactly
\* when the last call made for c.uid was an add; in particular it is false
\* right after removeTextTrackCue(track, c).
C11_CuePresentIffLastCallAdded ==
    IsArray(textTrack.cues) =>
        /\ \A cue \in Cues :
               lastCall[cue.uid] # "none" =>
                   (hasTextTrackCue(textTrack, cue) <=> lastCall[cue.uid] = "add")
        /\ (call.op = "removeTextTrackCue" /\ IsTruthy(call.arg)) =>
               ~hasTextTrackCue(textTrack, call.arg)

(***************************************************************************)
(* Specification of the track-list helpers: a list that is null or holds   *)
(* tracks of pairwise distinct uids, and any sequence of addTextTrack /    *)
(* removeTextTrack calls, each result becoming the list of the next call.  *)
(***************************************************************************)
Tracks == {TextTrack(u, l, NullArray) : u \in Uids, l \in Labels}
TrackArgs == Tracks \cup {UndefinedTrack}

DistinctUids(items) ==
    \A i, j \in 1..Len(items) : items[i].uid = items[j].uid => i = j

InitTracks ==
    /\ call = [op |-> "none", arg |-> UndefinedTrack]
    /\ flags = [dai |-> FALSE, ima |-> FALSE]
    /\ pc = "start"
    /\ result = NoResult
    /\ textTrack = UndefinedTrack
    /\ lastCall = NoCalls
    /\ \/ textTrackList = NullArray
       \/ \E n \in 0..NumUids :
              \E uid \in [1..n -> Uids], label \in [1..n -> Labels] :
                  LET items == [i \in 1..n |-> TextTrack(uid[i], label[i], NullArray)]
                  IN  /\ DistinctUids(items)
                      /\ textTrackList = JsArray(items)

AddTextTrack ==
    \E track \in TrackArgs :
        /\ textTrackList' = addTextTrack(textTrackList, track)
        /\ call' = [op |-> "addTextTrack", arg |-> track]
        /\ lastCall' = Called(track, "add")
        /\ UNCHANGED <<flags, pc, result, textTrack>>

RemoveTextTrack ==
    \E track \in TrackArgs :
        /\ textTrackList' = removeTextTrack(textTrackList, track)
        /\ call' = [op |-> "removeTextTrack", arg |-> track]
        /\ lastCall' = Called(track, "remove")
        /\ UNCHANGED <<flags, pc, result, textTrack>>

NextTracks == AddTextTrack \/ RemoveTextTrack
SpecTracks == InitTracks /\ [][NextTracks]_vars

\* the uids have no duplicate, and a uid that was the subject of a call is in
\* the list exactly when its last call was an add
TracksKeyedByUid ==
    IsArray(textTrackList) =>
        /\ DistinctUids(textTrackList.items)
        /\ \A track \in Tracks :
               /\ lastCall[track.uid] # "none" =>
                      (hasTextTrack(textTrackList, track) <=> lastCall[track.uid] = "add")
               /\ hasTextTrack(textTrackList, track)
                      <=> findTextTrackByUid(textTrackList, track.uid).uid = track.uid

\* a call with a track argument on a list: what it may change
AddOfPresentChangesNothing ==
    (call'.op = "addTextTrack" /\ hasTextTrack(textTrackList, call'.arg))
        => textTrackList' = textTrackList

RemoveKeepsOthersInOrder ==
    (call'.op = "removeTextTrack" /\ IsTruthy(call'.arg) /\ IsArray(textTrackList))
        => /\ FilterOutUid(textTrackList'.items, call'.arg.uid)
                  = FilterOutUid(textTrackList.items, call'.arg.uid)
           /\ Len(textTrackList'.items) <= Len(textTrackList.items)

\* C12: from a track list with pairwise distinct uids, after any sequence of
\* addTextTrack and removeTextTrack calls the list holds no two tracks with
\* one uid; addTextTrack of a present uid returns the list unchanged;
\* removeTextTrack leaves the tracks of every other uid in place and in
\* order; hasTextTrack(list, t) is true exactly when the last call made for
\* t.uid was an add.
C12_TrackListKeyedByUid ==
    /\ []TracksKeyedByUid
    /\ [][AddOfPresentChangesNothing /\ RemoveKeepsOthersInOrder]_vars

\* an add of a present uid under another label has left a list of two tracks
\* as it was, after some other uid was removed from it
C12_Witness ==
    /\ call.op = "addTextTrack"
    /\ IsArray(textTrackList)
    /\ Len(textTrackList.items) = 2
    /\ \E i \in 1..2 :
           /\ textTrackList.items[i].uid = call.arg.uid
           /\ textTrackList.items[i].label # call.arg.label
    /\ \E u \in Uids : lastCall[u] = "remove"
    /\ TracksKeyedByUid
====
